---- MODULE Spec2Model ----
(***************************************************************************)
(* Decay-structure matching of DecFileViewer: the parser of the textual    *)
(* decay notation (frontend/src/App.jsx) and the canonicalisation and      *)
(* weighted containment matcher (frontend/src/decayMatching.js).           *)
(*                                                                         *)
(* A JavaScript string is a sequence of one-character strings.  A decay    *)
(* node is a record [leaf, name, ds]: a JS string s is                      *)
(* [leaf |-> TRUE, name |-> s, ds |-> <<>>] and a JS array                 *)
(* [mother, d1, ..., dn] is [leaf |-> FALSE, name |-> mother,              *)
(* ds |-> <<d1, ..., dn>>].                                                *)
(***************************************************************************)
EXTENDS Integers, Sequences, FiniteSets, TLC

VARIABLES targetText, patternText, target, pattern, pc, pending, weight, result, via,
          norm1, norm2, stack, decayStructures, selectedFilters, matchesFilters,
          decayIndex, particles, particleSearch, decayMode, decayMother, decayDaughters,
          selectedRelease, loadingReleases, data, uniqueParticles, metadata, loading,
          fetches,
          dotFile, graphLoading, error, dotSource, svgInfo, renderedSvgHtml, renders

vars == <<targetText, patternText, target, pattern, pc, pending, weight, result, via,
          norm1, norm2, stack, decayStructures, selectedFilters, matchesFilters,
          decayIndex, particles, particleSearch, decayMode, decayMother, decayDaughters,
          selectedRelease, loadingReleases, data, uniqueParticles, metadata, loading,
          fetches,
          dotFile, graphLoading, error, dotSource, svgInfo, renderedSvgHtml, renders>>

\* the locals of decaysMatch, the call stack of parseDecayString, and the
\* record filter of the table
canonVars == <<norm1, norm2>>
parserVars == <<stack>>
filterVars == <<decayStructures, selectedFilters, matchesFilters>>
\* the position of modeDecays.some in the decays of a mode
someVars == <<decayIndex>>
\* what the steps of the matcher, the parser and the filter list leave alone
\* the text input of the filter editor and its decay input mode
inputVars == <<particleSearch, decayMode, decayMother, decayDaughters>>
\* the release shown by App, with the data.json requests in flight
releaseVars == <<selectedRelease, loadingReleases, data, uniqueParticles, metadata,
                 loading, fetches>>
\* the state of DotViewer (its loading is graphLoading here), with the
\* render attempts its effect has started
viewerVars == <<dotFile, graphLoading, error, dotSource, svgInfo, renderedSvgHtml,
                renders>>
\* the page around the filter list
pageVars == <<releaseVars, viewerVars>>
appVars == <<someVars, particles, inputVars, pageVars>>

----------------------------------------------------------------------------
(* Bounds of the explored input space. *)

\* largest number of nodes below the root of a target tree
MaxSize == 3
\* largest number of daughters of a flat search pattern
MaxPatternDaughters == 3
\* largest number of daughters of the root in a rendered text
MaxTextDaughters == 2
\* largest number of nodes below the root of a tree given to decaysMatch
MaxCanonSize == 4
\* largest number of tokens of a typed text
MaxTokens == 7
\* largest number of modes of a record, and of decays of a mode
MaxModes == 2
MaxModeDecays == 2
\* largest number of tokens of a typed text whose parse is followed to its end
MaxFairTokens == 5
MaxNestedSize == 2
\* largest number of active filters, and of daughters collected in decay
\* input mode, in the filter editor
MaxFilters == 2
MaxEditDaughters == 1
\* largest number of data.json requests in flight at a time
MaxFetches == 2
\* largest number of render attempts DotViewer starts
MaxRenders == 2

----------------------------------------------------------------------------
(* Strings *)

Leaf(n) == [leaf |-> TRUE, name |-> n, ds |-> <<>>]
Decay(m, d) == [leaf |-> FALSE, name |-> m, ds |-> d]
\* the parser's failure value (null): no decay the parser builds has an
\* empty mother
Null == [leaf |-> FALSE, name |-> <<>>, ds |-> <<>>]

Drop(s, k) == IF k >= Len(s) THEN <<>> ELSE SubSeq(s, k + 1, Len(s))
Take(s, k) == IF k <= 0 THEN <<>> ELSE SubSeq(s, 1, IF k > Len(s) THEN Len(s) ELSE k)

\* String.prototype.trim: the text between the first and the last
\* character that is no space
Trim(s) ==
  LET solid == {i \in 1..Len(s) : s[i] # " "}
  IN IF solid = {} THEN <<>>
     ELSE SubSeq(s, CHOOSE i \in solid : \A k \in solid : i <= k,
                    CHOOSE j \in solid : \A k \in solid : j >= k)

\* position of the first "]cc" that closes a marker opened at position i,
\* 0 when there is none
MarkerEnd(s, i) ==
  LET ends == {j \in (i + 1)..(Len(s) - 2) :
                 s[j] = "]" /\ s[j + 1] = "c" /\ s[j + 2] = "c"}
  IN IF ends = {} THEN 0 ELSE CHOOSE j \in ends : \A k \in ends : j <= k

\* str.replace(/\[.*?\]cc/g, ''): the leftmost "[" that some "]cc" closes
\* is cut with the shortest text up to a "]cc", and so on behind it
RECURSIVE StripMarkers(_)
StripMarkers(s) ==
  LET starts == {i \in 1..Len(s) : s[i] = "[" /\ MarkerEnd(s, i) # 0}
      first == CHOOSE i \in starts : \A k \in starts : i <= k
  IN IF starts = {} THEN s
     ELSE Take(s, first - 1) \o StripMarkers(Drop(s, MarkerEnd(s, first) + 2))

normalizeParticleName(name) == Trim(StripMarkers(name))

EndsWithSig(s) ==
  Len(s) >= 3 /\ s[Len(s) - 2] = "s" /\ s[Len(s) - 1] = "i" /\ s[Len(s)] = "g"

\* str.replace(/sig$/, "")
StripSig(s) == IF EndsWithSig(s) THEN Take(s, Len(s) - 3) ELSE s

----------------------------------------------------------------------------
(* String.prototype.localeCompare under the root collation: characters    *)
(* compare by primary weight (spaces, punctuation, symbols, digits,       *)
(* letters; case folded), ties by case with lower case first.             *)

UpperCase == <<"A","B","C","D","E","F","G","H","I","J","K","L","M",
               "N","O","P","Q","R","S","T","U","V","W","X","Y","Z">>
LowerCase == <<"a","b","c","d","e","f","g","h","i","j","k","l","m",
               "n","o","p","q","r","s","t","u","v","w","x","y","z">>
Collation == <<" ", "-", "(", ")", "[", "]", "+", ">",
               "0","1","2","3","4","5","6","7","8","9">> \o LowerCase

Chars == {Collation[i] : i \in 1..Len(Collation)} \cup {UpperCase[i] : i \in 1..Len(UpperCase)}
IsUpper(c) == \E i \in 1..Len(UpperCase) : UpperCase[i] = c
Fold(c) ==
  IF IsUpper(c)
  THEN LowerCase[CHOOSE i \in 1..Len(UpperCase) : UpperCase[i] = c]
  ELSE c
PrimaryWeights == [c \in Chars |-> CHOOSE i \in 1..Len(Collation) : Collation[i] = Fold(c)]
TertiaryWeights == [c \in Chars |-> IF IsUpper(c) THEN 1 ELSE 0]
Primary(c) == PrimaryWeights[c]
Tertiary(c) == TertiaryWeights[c]

PrimaryKey(s) == [i \in 1..Len(s) |-> Primary(s[i])]
TertiaryKey(s) == [i \in 1..Len(s) |-> Tertiary(s[i])]

\* lexicographic comparison of two weight sequences: -1, 0 or 1
RECURSIVE LexCompare(_, _)
LexCompare(a, b) ==
  IF a = <<>> /\ b = <<>> THEN 0
  ELSE IF a = <<>> THEN -1
  ELSE IF b = <<>> THEN 1
  ELSE IF Head(a) < Head(b) THEN -1
  ELSE IF Head(a) > Head(b) THEN 1
  ELSE LexCompare(Tail(a), Tail(b))

localeCompare(a, b) ==
  IF LexCompare(PrimaryKey(a), PrimaryKey(b)) # 0
  THEN LexCompare(PrimaryKey(a), PrimaryKey(b))
  ELSE LexCompare(TertiaryKey(a), TertiaryKey(b))

----------------------------------------------------------------------------
(* Canonical order and exact equality (decayMatching.js) *)

\* the comparator's key: a leaf's name or a sub-decay's mother
SortKey(d) == d.name

\* an insertion that places d before the elements of equal key
RECURSIVE InsertBeforeEqual(_, _)
InsertBeforeEqual(sorted, d) ==
  IF sorted = <<>> THEN <<d>>
  ELSE IF localeCompare(SortKey(d), SortKey(Head(sorted))) <= 0
       THEN <<d>> \o sorted
       ELSE <<Head(sorted)>> \o InsertBeforeEqual(Tail(sorted), d)

\* place d behind every element whose key is not greater (stable)
RECURSIVE InsertSorted(_, _)
InsertSorted(sorted, d) ==
  IF sorted = <<>> THEN <<d>>
  ELSE IF localeCompare(SortKey(d), SortKey(Head(sorted))) < 0
       THEN <<d>> \o sorted
       ELSE <<Head(sorted)>> \o InsertSorted(Tail(sorted), d)

\* the daughters left in the order they were given
InputOrder(ds) == ds

\* [...daughters].sort(cmp): Array.prototype.sort is stable
RECURSIVE StableSort(_)
StableSort(ds) ==
  IF ds = <<>> THEN <<>>
  ELSE InsertSorted(StableSort(Take(ds, Len(ds) - 1)), ds[Len(ds)])

RECURSIVE sortDecay(_)
sortDecay(decay) ==
  IF decay.leaf THEN decay
  ELSE LET sortedDaughters == StableSort(decay.ds)
       IN Decay(decay.name,
                [i \in 1..Len(sortedDaughters) |-> sortDecay(sortedDaughters[i])])

RECURSIVE normalizeDecay(_)
normalizeDecay(decay) ==
  IF decay.leaf THEN Leaf(normalizeParticleName(decay.name))
  ELSE LET sorted == sortDecay(decay)
       IN Decay(normalizeParticleName(sorted.name),
                [i \in 1..Len(sorted.ds) |-> normalizeDecay(sorted.ds[i])])

decaysMatch(decay1, decay2) == normalizeDecay(decay1) = normalizeDecay(decay2)

----------------------------------------------------------------------------
(* Weighted containment (decayMatching.js) *)

\* decay.slice(1): a fresh array of the daughters
\* extractDaughters giving a sub-decay daughter by the name of its mother
extractDaughterNames(decay) ==
  IF decay.leaf THEN <<>> ELSE [i \in 1..Len(decay.ds) |-> Leaf(decay.ds[i].name)]

\* lines 83-86: decay.slice(1), the daughters as they are
extractDaughters(decay) == IF decay.leaf THEN <<>> ELSE decay.ds

RECURSIVE SumSeq(_)
SumSeq(s) == IF s = <<>> THEN 0 ELSE Head(s) + SumSeq(Tail(s))

\* getWeight with the reduce started at 0: the mother is counted
RECURSIVE getWeightCountingMother(_)
getWeightCountingMother(decayStructure) ==
  IF decayStructure.leaf THEN 1
  ELSE 1 + SumSeq([i \in 1..Len(decayStructure.ds) |->
                     getWeightCountingMother(decayStructure.ds[i])])

\* getWeight without the recursion: every entry behind the mother counts 1
getWeightOfEntries(decayStructure) ==
  IF decayStructure.leaf THEN 1 ELSE Len(decayStructure.ds)

\* reduce over [mother, ...daughters] from -1: the mother string counts 1
RECURSIVE getWeight(_)
getWeight(decayStructure) ==
  IF decayStructure.leaf THEN 1
  ELSE -1 + 1 + SumSeq([i \in 1..Len(decayStructure.ds) |->
                          getWeight(decayStructure.ds[i])])

nodeName(decayStructure) == StripSig(decayStructure.name)

\* searchDaughters.includes(name): strict equality, so only a string
\* element can equal a name
Includes(searchDaughters, name) ==
  \E i \in 1..Len(searchDaughters) : searchDaughters[i] = Leaf(name)

\* searchDaughters.indexOf(name), 1-based; 0 stands for -1
IndexOf(searchDaughters, name) ==
  IF Includes(searchDaughters, name)
  THEN CHOOSE i \in 1..Len(searchDaughters) :
         /\ searchDaughters[i] = Leaf(name)
         /\ \A j \in 1..(i - 1) : searchDaughters[j] # Leaf(name)
  ELSE 0

\* searchDaughters.splice(index, 1)
Splice(searchDaughters, index) ==
  Take(searchDaughters, index - 1) \o Drop(searchDaughters, index)

\* the removal loop of findMatches: one splice per daughter whose name is
\* still listed
RECURSIVE RemoveDaughters(_, _)
RemoveDaughters(daughters, searchDaughters) ==
  IF daughters = <<>> THEN searchDaughters
  ELSE LET index == IndexOf(searchDaughters, nodeName(Head(daughters)))
       IN RemoveDaughters(Tail(daughters),
            IF index # 0 THEN Splice(searchDaughters, index) ELSE searchDaughters)

\* findMatches returns the matched weight; the list it splices is returned
\* with it as sd.  FindAll is the reduce over the daughters, left to right.
RECURSIVE findMatches(_, _)
RECURSIVE FindAll(_, _)
AllDaughtersListed(daughters, searchDaughters) ==
  \A i \in 1..Len(daughters) : Includes(searchDaughters, nodeName(daughters[i]))

findMatches(decayStructure, searchDaughters) ==
  IF decayStructure.leaf THEN [w |-> 0, sd |-> searchDaughters]
  ELSE LET mother == nodeName(decayStructure)
           daughters == decayStructure.ds
       IN IF Includes(searchDaughters, mother)
          THEN [w |-> getWeight(decayStructure),
                sd |-> Splice(searchDaughters, IndexOf(searchDaughters, mother))]
          ELSE IF AllDaughtersListed(daughters, searchDaughters)
          THEN [w |-> getWeight(decayStructure),
                sd |-> RemoveDaughters(daughters, searchDaughters)]
          ELSE FindAll(daughters, searchDaughters)

FindAll(daughters, searchDaughters) ==
  IF daughters = <<>> THEN [w |-> 0, sd |-> searchDaughters]
  ELSE LET first == findMatches(Head(daughters), searchDaughters)
           rest == FindAll(Tail(daughters), first.sd)
       IN [w |-> first.w + rest.w, sd |-> rest.sd]

\* the comparison of line 102, negated
MothersMatch(decayStructure, searchDecay) ==
  StripSig(normalizeParticleName(decayStructure.name))
    = StripSig(normalizeParticleName(searchDecay.name))

\* the return of line 127 without its test of the pending list
WeightedVerdictWeightOnly(decayStructure, w, searchDaughters) ==
  w = getWeight(decayStructure)

\* the return of line 127
WeightedVerdict(decayStructure, w, searchDaughters) ==
  w = getWeight(decayStructure) /\ Len(searchDaughters) = 0

RECURSIVE decayContains(_, _)
\* the loop of lines 104-111 leaving after its first daughter
SearchFirstDaughterOnly(decayStructure, searchDecay) ==
  /\ Len(decayStructure.ds) >= 1
  /\ ~decayStructure.ds[1].leaf
  /\ decayContains(decayStructure.ds[1], searchDecay)

\* the loop of lines 104-111
SearchSubDecays(decayStructure, searchDecay) ==
  \E i \in 1..Len(decayStructure.ds) :
     /\ ~decayStructure.ds[i].leaf
     /\ decayContains(decayStructure.ds[i], searchDecay)

decayContains(decayStructure, searchDecay) ==
  IF decayStructure.leaf \/ searchDecay.leaf THEN FALSE
  ELSE IF ~MothersMatch(decayStructure, searchDecay)
  THEN SearchSubDecays(decayStructure, searchDecay)
  ELSE IF decaysMatch(decayStructure, searchDecay) THEN TRUE
  ELSE LET r == findMatches(decayStructure, extractDaughters(searchDecay))
       IN WeightedVerdict(decayStructure, r.w, r.sd)

----------------------------------------------------------------------------
(* The parser of the decay notation (App.jsx) *)

\* cleaned.replace(/^\[|\]$/g, ''): a leading "[" and a trailing "]" go,
\* each on its own
StripOuterBrackets(s) ==
  LET s1 == IF s # <<>> /\ Head(s) = "[" THEN Tail(s) ELSE s
  IN IF s1 # <<>> /\ s1[Len(s1)] = "]" THEN Take(s1, Len(s1) - 1) ELSE s1

\* parenDepth when the scan stands at position i
DepthBefore(cleaned, i) ==
  Cardinality({k \in 1..(i - 1) : cleaned[k] = "("})
    - Cardinality({k \in 1..(i - 1) : cleaned[k] = ")"})

\* the scan without its test of parenDepth
FindFirstArrowAtAnyDepth(cleaned) ==
  LET arrows == {i \in 1..(Len(cleaned) - 1) :
                   cleaned[i] = "-" /\ cleaned[i + 1] = ">"}
  IN IF arrows = {} THEN 0 ELSE CHOOSE i \in arrows : \A k \in arrows : i <= k

\* the scan for the first "->" outside parentheses: the first position,
\* short of the last character, that holds "-" before ">" at depth 0;
\* 0 stands for -1
FindFirstArrow(cleaned) ==
  LET arrows == {i \in 1..(Len(cleaned) - 1) :
                   /\ cleaned[i] = "-"
                   /\ cleaned[i + 1] = ">"
                   /\ DepthBefore(cleaned, i) = 0}
  IN IF arrows = {} THEN 0 ELSE CHOOSE i \in arrows : \A k \in arrows : i <= k

\* the push without its test of the particle
PushParticleUnchecked(daughters, text) ==
  Append(daughters, Leaf(normalizeParticleName(Trim(text))))

\* const particle = normalizeParticleName(text.trim());
\* if (particle) daughters.push(particle)
PushParticle(daughters, text) ==
  LET particle == normalizeParticleName(Trim(text))
  IN IF particle # <<>> THEN Append(daughters, Leaf(particle)) ELSE daughters

\* current taken whole, with its parentheses
SliceKeepingParentheses(current) == current

\* current.slice(1, -1)
SliceInner(current) ==
  IF Len(current) <= 2 THEN <<>> ELSE SubSeq(current, 2, Len(current) - 1)

RECURSIVE parseDecayString(_)
RECURSIVE ScanDaughters(_, _, _, _, _)

\* the next position from i on whose character the daughter loop does not
\* just add to current: a parenthesis, or a space at depth 0
NextSpecial(daughtersStr, i, parenDepth) ==
  LET special == {j \in i..Len(daughtersStr) :
                    \/ daughtersStr[j] = "("
                    \/ daughtersStr[j] = ")"
                    \/ (daughtersStr[j] = " " /\ parenDepth = 0)}
  IN IF special = {} THEN Len(daughtersStr) + 1
     ELSE CHOOSE j \in special : \A k \in special : j <= k

\* the daughter loop from position i, and the push of what remains; a run
\* of characters of the last branch is added to current in one step
ScanDaughters(daughtersStr, i, current, parenDepth, daughters) ==
  IF i > Len(daughtersStr)
  THEN IF Trim(current) # <<>> /\ parenDepth = 0
       THEN PushParticle(daughters, current)
       ELSE daughters
  ELSE LET char == daughtersStr[i]
           next == NextSpecial(daughtersStr, i, parenDepth)
       IN IF next > i
          THEN ScanDaughters(daughtersStr, next,
                             current \o SubSeq(daughtersStr, i, next - 1),
                             parenDepth, daughters)
          ELSE IF char = "("
          THEN IF parenDepth = 0 /\ Trim(current) # <<>>
               THEN ScanDaughters(daughtersStr, i + 1, <<char>>, parenDepth + 1,
                                  PushParticle(daughters, current))
               ELSE ScanDaughters(daughtersStr, i + 1, Append(current, char),
                                  parenDepth + 1, daughters)
          ELSE IF char = ")"
          THEN IF parenDepth - 1 = 0
               THEN LET subDecayStr == SliceInner(Append(current, char))
                        subDecay == parseDecayString(subDecayStr)
                    IN ScanDaughters(daughtersStr, i + 1, <<>>, 0,
                         IF subDecay # Null THEN Append(daughters, subDecay)
                         ELSE PushParticle(daughters, subDecayStr))
               ELSE ScanDaughters(daughtersStr, i + 1, Append(current, char),
                                  parenDepth - 1, daughters)
          ELSE IF Trim(current) # <<>>
               THEN ScanDaughters(daughtersStr, i + 1, <<>>, parenDepth,
                                  PushParticle(daughters, current))
               ELSE ScanDaughters(daughtersStr, i + 1, current, parenDepth, daughters)

parseDecayString(decayStr) ==
  IF decayStr = <<>> THEN Null
  ELSE LET trimmed == Trim(StripMarkers(decayStr))
           cleaned == StripOuterBrackets(trimmed)
           firstArrow == FindFirstArrow(cleaned)
           mother == normalizeParticleName(Trim(Take(cleaned, firstArrow - 1)))
           daughtersStr == Trim(Drop(cleaned, firstArrow + 1))
           daughters == ScanDaughters(daughtersStr, 1, <<>>, 0, <<>>)
       IN IF trimmed = <<>> THEN Null
          ELSE IF firstArrow = 0 THEN Null
          ELSE IF mother = <<>> \/ daughtersStr = <<>> THEN Null
          ELSE IF daughters = <<>> THEN Null
          ELSE sortDecay(Decay(mother, daughters))

\* Array.prototype.join(' ')
RECURSIVE JoinWithSpace(_)
JoinWithSpace(parts) ==
  IF parts = <<>> THEN <<>>
  ELSE IF Len(parts) = 1 THEN Head(parts)
  ELSE Head(parts) \o <<" ">> \o JoinWithSpace(Tail(parts))

\* the text a filter is shown as, and edited from
RECURSIVE formatFilter(_)
formatFilter(filter) ==
  IF filter.leaf THEN filter.name
  ELSE filter.name \o <<" ", "-", ">", " ">> \o
       JoinWithSpace([i \in 1..Len(filter.ds) |->
          IF filter.ds[i].leaf THEN filter.ds[i].name
          ELSE <<"(">> \o formatFilter(filter.ds[i]) \o <<")">>])

----------------------------------------------------------------------------
(* Input space of the matcher *)

nA == <<"A">>
nAsig == <<"A", "s", "i", "g">>
nx == <<"x">>
Names == {nA, nAsig, nx}
\* the names of final-state particles in the records
LeafNameSet == {nA, nx}

\* every node that has exactly size nodes (itself included), and every
\* daughter list whose nodes add up to size
RECURSIVE NodesOfSize(_)
RECURSIVE ForestsOfSize(_)
NodesOfSize(size) ==
  IF size = 1 THEN {Leaf(n) : n \in LeafNameSet}
  ELSE {Decay(n, f) : n \in Names, f \in ForestsOfSize(size - 1)}

ForestsOfSize(size) ==
  IF size = 0 THEN {<<>>}
  ELSE UNION {{<<t>> \o f : t \in NodesOfSize(k), f \in ForestsOfSize(size - k)} :
                k \in 1..size}

\* the decay trees of a record: a mother and at most MaxSize nodes below it
Targets == UNION {NodesOfSize(size + 1) : size \in 1..MaxSize}

\* a search decay is built by parseDecayString or handleAddFromInput, which
\* both end in sortDecay
FlatPatterns ==
  UNION {{sortDecay(Decay(m, [i \in 1..k |-> Leaf(f[i])])) :
            m \in Names, f \in [1..k -> Names]} : k \in 1..MaxPatternDaughters}

\* and the record's own tree serves for decayContains(t, t)
Patterns(t) == FlatPatterns \cup {sortDecay(t), t}

----------------------------------------------------------------------------
(* One evaluation of decayContains(target, pattern), step by step *)

\* the parts of the state an evaluation does not touch, before their use
CanonIdle == norm1 = Null /\ norm2 = Null
ParserIdle == stack = <<>>
FilterIdle ==
  /\ decayStructures = <<>>
  /\ selectedFilters = <<>>
  /\ matchesFilters = TRUE
SomeIdle == decayIndex = 0
InputIdle ==
  /\ particleSearch = <<>>
  /\ decayMode = FALSE
  /\ decayMother = <<>>
  /\ decayDaughters = <<>>
\* a value not set (null); a list not filled yet is <<>>
None == "none"
ReleaseIdle ==
  /\ selectedRelease = None
  /\ loadingReleases = TRUE
  /\ data = <<>>
  /\ uniqueParticles = <<>>
  /\ metadata = <<>>
  /\ loading = TRUE
  /\ fetches = <<>>
ViewerIdle ==
  /\ dotFile = None
  /\ graphLoading = FALSE
  /\ error = None
  /\ dotSource = <<>>
  /\ svgInfo = <<>>
  /\ renderedSvgHtml = <<>>
  /\ renders = <<>>
PageIdle == ReleaseIdle /\ ViewerIdle
AppIdle == SomeIdle /\ particles = <<>> /\ InputIdle /\ PageIdle

Init ==
  /\ targetText = <<>>
  /\ patternText = <<>>
  /\ target \in Targets
  /\ pattern \in Patterns(target)
  /\ pc = "start"
  /\ pending = <<>>
  /\ weight = 0
  /\ result = FALSE
  /\ via = "none"
  /\ CanonIdle /\ ParserIdle /\ FilterIdle /\ AppIdle

\* lines 98-112: compare the mothers; when they differ the sub-decays of
\* the target decide
CheckMothers ==
  /\ pc = "start"
  /\ IF MothersMatch(target, pattern)
     THEN /\ pc' = "exact"
          /\ UNCHANGED <<result, via>>
     ELSE /\ result' = SearchSubDecays(target, pattern)
          /\ via' = "deep"
          /\ pc' = "done"
  /\ UNCHANGED <<targetText, patternText, target, pattern, pending, weight>>
  /\ UNCHANGED <<canonVars, parserVars, filterVars>>
  /\ UNCHANGED appVars

\* lines 114-123 without the exact check: every pair goes to the walk
ExactCheckOmitted ==
  /\ pc = "exact"
  /\ pending' = extractDaughters(pattern)
  /\ pc' = "walk"
  /\ UNCHANGED <<targetText, patternText, target, pattern, weight, result, via>>
  /\ UNCHANGED <<canonVars, parserVars, filterVars>>
  /\ UNCHANGED appVars

\* lines 114-123: the exact check, then the list the walk consumes
ExactCheck ==
  /\ pc = "exact"
  /\ IF decaysMatch(target, pattern)
     THEN /\ result' = TRUE
          /\ via' = "exact"
          /\ pc' = "done"
          /\ UNCHANGED pending
     ELSE /\ pending' = extractDaughters(pattern)
          /\ pc' = "walk"
          /\ UNCHANGED <<result, via>>
  /\ UNCHANGED <<targetText, patternText, target, pattern, weight>>
  /\ UNCHANGED <<canonVars, parserVars, filterVars>>
  /\ UNCHANGED appVars

\* line 126 if the list handed to findMatches were the daughters of the
\* search decay themselves: the splices show in the search decay
WalkSplicingSearchDecay ==
  /\ pc = "walk"
  /\ LET r == findMatches(target, pending)
     IN /\ weight' = r.w
        /\ pending' = r.sd
        /\ pattern' = Decay(pattern.name, r.sd)
  /\ pc' = "decide"
  /\ UNCHANGED <<targetText, patternText, target, result, via>>
  /\ UNCHANGED <<canonVars, parserVars, filterVars>>
  /\ UNCHANGED appVars

\* line 126: the walk, from the target itself
Walk ==
  /\ pc = "walk"
  /\ LET r == findMatches(target, pending)
     IN /\ weight' = r.w
        /\ pending' = r.sd
  /\ pc' = "decide"
  /\ UNCHANGED <<targetText, patternText, target, pattern, result, via>>
  /\ UNCHANGED <<canonVars, parserVars, filterVars>>
  /\ UNCHANGED appVars

\* line 127
Decide ==
  /\ pc = "decide"
  /\ result' = WeightedVerdict(target, weight, pending)
  /\ via' = "weighted"
  /\ pc' = "done"
  /\ UNCHANGED <<targetText, patternText, target, pattern, pending, weight>>
  /\ UNCHANGED <<canonVars, parserVars, filterVars>>
  /\ UNCHANGED appVars

Next == CheckMothers \/ ExactCheck \/ Walk \/ Decide

Spec == Init /\ [][Next]_vars

\* the same evaluation for search decays that have a sub-decay among their
\* daughters, as parseDecayString builds them from a text with parentheses
NestedPatterns(maxSize) ==
  {sortDecay(p) : p \in {t \in UNION {NodesOfSize(size + 1) : size \in 2..maxSize} :
                           \E i \in 1..Len(t.ds) : ~t.ds[i].leaf}}

InitNested ==
  /\ targetText = <<>>
  /\ patternText = <<>>
  /\ target \in Targets
  /\ pattern \in NestedPatterns(MaxNestedSize)
  /\ pc = "start"
  /\ pending = <<>>
  /\ weight = 0
  /\ result = FALSE
  /\ via = "none"
  /\ CanonIdle /\ ParserIdle /\ FilterIdle /\ AppIdle

SpecNested == InitNested /\ [][Next]_vars

----------------------------------------------------------------------------
(* modeDecays.some(decay => decayContains(decay, filter)): one search      *)
(* decay evaluated against the decays of a mode, one after the other       *)

EvaluatedDecays ==
  {Decay(nA, <<Leaf(nx)>>), Decay(nx, <<Leaf(nA)>>),
   Decay(nA, <<Decay(nx, <<Leaf(nA)>>), Leaf(nx)>>)}

\* a record with a single mode of at least one decay
SingleModes(maxModeDecays) ==
  {<<modeDecays>> : modeDecays \in UNION {[1..k -> EvaluatedDecays] : k \in 1..maxModeDecays}}

InitSome ==
  /\ targetText = <<>>
  /\ patternText = <<>>
  /\ decayStructures \in SingleModes(MaxModeDecays)
  /\ pattern \in FlatPatterns
  /\ decayIndex = 1
  /\ target = decayStructures[1][1]
  /\ pc = "start"
  /\ pending = <<>>
  /\ weight = 0
  /\ result = FALSE
  /\ via = "none"
  /\ selectedFilters = <<>>
  /\ matchesFilters = TRUE
  /\ particles = <<>>
  /\ CanonIdle /\ ParserIdle /\ InputIdle /\ PageIdle

\* App.jsx line 280: some() calls its callback on the next decay of the
\* mode after a call that returned false; the filter is the same array
NextDecay ==
  /\ pc = "done"
  /\ result = FALSE
  /\ decayIndex < Len(decayStructures[1])
  /\ decayIndex' = decayIndex + 1
  /\ target' = decayStructures[1][decayIndex']
  /\ pc' = "start"
  /\ pending' = <<>>
  /\ weight' = 0
  /\ via' = "none"
  /\ UNCHANGED <<targetText, patternText, pattern, result>>
  /\ UNCHANGED <<canonVars, parserVars, filterVars, particles, inputVars, pageVars>>

NextSome == CheckMothers \/ ExactCheck \/ Walk \/ Decide \/ NextDecay

SpecSome == InitSome /\ [][NextSome]_vars

----------------------------------------------------------------------------
(* The descriptor example of the parser's comment, parsed and matched *)

tB0sig == <<"B", "0", "s", "i", "g">>
tLambda == <<"L", "a", "m", "b", "d", "a", "(", "1", "5", "2", "0", ")", "0">>
tAntiLambda == <<"a", "n", "t", "i", "-">> \o tLambda
tPhi == <<"p", "h", "i">>
tKm == <<"K", "-">>
tKp == <<"K", "+">>
tPp == <<"p", "+">>
tAntiPm == <<"a", "n", "t", "i", "-", "p", "-">>

SeqsUpTo(S, n) == UNION {[1..k -> S] : k \in 1..n}

\* what the root of a descriptor decays into
TextDaughters ==
  {Leaf(tKm),
   Decay(tLambda, <<Leaf(tKm), Leaf(tPp)>>),
   Decay(tAntiLambda, <<Leaf(tKp), Leaf(tAntiPm)>>),
   Decay(tPhi, <<Leaf(tKp), Leaf(tKm)>>)}

\* what a typed search names
TextNames == {tLambda, tAntiLambda, tPhi, tKm}

TargetTexts ==
  {formatFilter(Decay(tB0sig, ds)) : ds \in SeqsUpTo(TextDaughters, MaxTextDaughters)}

PatternTexts ==
  {formatFilter(Decay(m, [i \in 1..Len(f) |-> Leaf(f[i])])) :
     m \in {tB0sig, tPhi}, f \in SeqsUpTo(TextNames, MaxTextDaughters)}

ExampleTargetText ==
  formatFilter(Decay(tB0sig, <<Decay(tLambda, <<Leaf(tKm), Leaf(tPp)>>),
                               Decay(tAntiLambda, <<Leaf(tKp), Leaf(tAntiPm)>>)>>))
ExamplePatternText ==
  formatFilter(Decay(tB0sig, <<Leaf(tLambda), Leaf(tAntiLambda)>>))

InitText ==
  /\ targetText \in TargetTexts
  /\ patternText \in PatternTexts
  /\ target = Null
  /\ pattern = Null
  /\ pc = "parse"
  /\ pending = <<>>
  /\ weight = 0
  /\ result = FALSE
  /\ via = "none"
  /\ CanonIdle /\ ParserIdle /\ FilterIdle /\ AppIdle

\* both texts go through parseDecayString; a text that does not parse
\* gives no decay to match
ParseTexts ==
  /\ pc = "parse"
  /\ target' = parseDecayString(targetText)
  /\ pattern' = parseDecayString(patternText)
  /\ pc' = IF target' = Null \/ pattern' = Null THEN "rejected" ELSE "start"
  /\ UNCHANGED <<targetText, patternText, pending, weight, result, via>>
  /\ UNCHANGED <<canonVars, parserVars, filterVars>>
  /\ UNCHANGED appVars

NextText == ParseTexts \/ CheckMothers \/ ExactCheck \/ Walk \/ Decide

SpecText == InitText /\ [][NextText]_vars

----------------------------------------------------------------------------
(* decaysMatch(decay1, decay2) on trees as the records hold them, with    *)
(* names that name normalization changes, step by step                    *)

\* a name with the blank that trim removes
nSpx == <<" ", "x">>
CanonNames == {nA, nSpx}

RECURSIVE CanonNodesOfSize(_)
RECURSIVE CanonForestsOfSize(_)
CanonNodesOfSize(size) ==
  IF size = 1 THEN {Leaf(n) : n \in CanonNames}
  ELSE {Decay(n, f) : n \in CanonNames, f \in CanonForestsOfSize(size - 1)}

CanonForestsOfSize(size) ==
  IF size = 0 THEN {<<>>}
  ELSE UNION {{<<t>> \o f : t \in CanonNodesOfSize(k),
                            f \in CanonForestsOfSize(size - k)} : k \in 1..size}

\* decay1: a mother and at most maxSize nodes below it
CanonTrees(maxSize) == UNION {CanonNodesOfSize(size + 1) : size \in 1..maxSize}

Perms(n) == {p \in [1..n -> 1..n] : \A i, j \in 1..n : p[i] = p[j] => i = j}

\* the same tree with its daughter lists, at any level, in every order
RECURSIVE Rearrangements(_)
Rearrangements(t) ==
  IF t.leaf THEN {t}
  ELSE LET n == Len(t.ds)
           each == [i \in 1..n |-> Rearrangements(t.ds[i])]
           picks == {g \in [1..n -> UNION {each[i] : i \in 1..n}] :
                       \A i \in 1..n : g[i] \in each[i]}
       IN {Decay(t.name, [i \in 1..n |-> g[p[i]]]) : g \in picks, p \in Perms(n)}

\* decay2: decay1 in another order, decay1 already normalized, or one of
\* the decays with a single daughter
CanonSecond(t) ==
  Rearrangements(t) \cup {normalizeDecay(t)} \cup CanonNodesOfSize(2)

InitCanon ==
  /\ targetText = <<>>
  /\ patternText = <<>>
  /\ target \in CanonTrees(MaxCanonSize)
  /\ pattern \in CanonSecond(target)
  /\ pc = "canon"
  /\ pending = <<>>
  /\ weight = 0
  /\ result = FALSE
  /\ via = "none"
  /\ CanonIdle /\ ParserIdle /\ FilterIdle /\ AppIdle

\* lines 50-51
Normalize ==
  /\ pc = "canon"
  /\ norm1' = normalizeDecay(target)
  /\ norm2' = normalizeDecay(pattern)
  /\ pc' = "normalized"
  /\ UNCHANGED <<targetText, patternText, target, pattern, pending, weight, result, via>>
  /\ UNCHANGED <<parserVars, filterVars>>
  /\ UNCHANGED appVars

\* lines 54-57 comparing the first normal form with the second decay as
\* it was given
CompareUnnormalized ==
  /\ pc = "normalized"
  /\ result' = (norm1 = sortDecay(pattern))
  /\ pc' = "compared"
  /\ UNCHANGED <<targetText, patternText, target, pattern, pending, weight, via>>
  /\ UNCHANGED <<canonVars, parserVars, filterVars>>
  /\ UNCHANGED appVars

\* lines 54-57: JSON.stringify of two trees of strings agrees exactly when
\* the trees are equal
Compare ==
  /\ pc = "normalized"
  /\ result' = (norm1 = norm2)
  /\ pc' = "compared"
  /\ UNCHANGED <<targetText, patternText, target, pattern, pending, weight, via>>
  /\ UNCHANGED <<canonVars, parserVars, filterVars>>
  /\ UNCHANGED appVars

NextCanon == Normalize \/ Compare

SpecCanon == InitCanon /\ [][NextCanon]_vars

----------------------------------------------------------------------------
(* parseDecayString(targetText) step by step: one frame of the stack per  *)
(* call in progress, one step per character of the daughter loop          *)

\* what is typed: a name, a blank, the parentheses and the arrow
TypedTokens == {<<"a">>, <<" ">>, <<"(">>, <<")">>, <<"-", ">">>}

RECURSIVE TextsOfTokens(_)
TextsOfTokens(n) ==
  IF n = 0 THEN {<<>>}
  ELSE LET shorter == TextsOfTokens(n - 1)
       IN shorter \cup {t \o k : t \in shorter, k \in TypedTokens}

\* a call that has not yet run its first statement
EntryFrame(decayStr) ==
  [phase |-> "entry", decayStr |-> decayStr, mother |-> <<>>,
   daughtersStr |-> <<>>, i |-> 1, current |-> <<>>, parenDepth |-> 0,
   daughters |-> <<>>]

\* the call parseDecayString(targetText) on one of texts, about to start
InitParseOf(texts) ==
  /\ targetText \in texts
  /\ patternText = <<>>
  /\ target = Null
  /\ pattern = Null
  /\ pc = "parsing"
  /\ pending = <<>>
  /\ weight = 0
  /\ result = FALSE
  /\ via = "none"
  /\ stack = <<EntryFrame(targetText)>>
  /\ CanonIdle /\ FilterIdle /\ AppIdle

InitParse == InitParseOf(TextsOfTokens(MaxTokens))

Top == stack[Len(stack)]
Callers == Take(stack, Len(stack) - 1)

\* a call returns ret: the outermost call gives the result; a call made at
\* line 65 is followed by lines 66-73 of its caller and the loop's i++
ReturnTo(callers, ret) ==
  IF callers = <<>>
  THEN /\ target' = ret
       /\ pc' = "returned"
       /\ stack' = <<>>
  ELSE LET f == callers[Len(callers)]
           subDecayStr == SliceInner(f.current)
           pushed == IF ret # Null THEN Append(f.daughters, ret)
                     ELSE PushParticle(f.daughters, subDecayStr)
       IN /\ stack' = [callers EXCEPT ![Len(callers)] =
                         [f EXCEPT !.daughters = pushed, !.current = <<>>,
                                   !.i = f.i + 1]]
          /\ UNCHANGED <<target, pc>>

\* lines 14-45: the early returns, the mother and the daughter text; each
\* local is bound to its value once
Enter ==
  /\ pc = "parsing"
  /\ Top.phase = "entry"
  /\ \E decayStr \in {Top.decayStr} :
     \E trimmed \in {Trim(StripMarkers(decayStr))} :
     \E cleaned \in {StripOuterBrackets(trimmed)} :
     \E firstArrow \in {FindFirstArrow(cleaned)} :
     \E beforeArrow \in {Trim(Take(cleaned, firstArrow - 1))} :
     \E mother \in {normalizeParticleName(beforeArrow)} :
     \E daughtersStr \in {Trim(Drop(cleaned, firstArrow + 1))} :
        IF \/ decayStr = <<>>
           \/ trimmed = <<>>
           \/ firstArrow = 0
           \/ mother = <<>>
           \/ daughtersStr = <<>>
        THEN ReturnTo(Callers, Null)
        ELSE /\ stack' = [stack EXCEPT ![Len(stack)] =
                            [Top EXCEPT !.phase = "scan", !.mother = mother,
                                        !.daughtersStr = daughtersStr]]
             /\ UNCHANGED <<target, pc>>
  /\ UNCHANGED <<targetText, patternText, pattern, pending, weight, result, via>>
  /\ UNCHANGED <<canonVars, filterVars>>
  /\ UNCHANGED appVars

\* the frame on top replaced by f
WithTop(f) == [stack EXCEPT ![Len(stack)] = f]

\* lines 47-85: one pass of the daughter loop; a group closed at depth 0
\* calls parseDecayString on its inside
ScanChar ==
  /\ pc = "parsing"
  /\ Top.phase = "scan"
  /\ Top.i <= Len(Top.daughtersStr)
  /\ LET char == Top.daughtersStr[Top.i]
         current == Top.current
         parenDepth == Top.parenDepth
     IN IF char = "("
        THEN IF parenDepth = 0 /\ Trim(current) # <<>>
             THEN stack' = WithTop([Top EXCEPT
                               !.daughters = PushParticle(Top.daughters, current),
                               !.current = <<char>>,
                               !.parenDepth = parenDepth + 1,
                               !.i = Top.i + 1])
             ELSE stack' = WithTop([Top EXCEPT
                               !.current = Append(current, char),
                               !.parenDepth = parenDepth + 1,
                               !.i = Top.i + 1])
        ELSE IF char = ")"
        THEN IF parenDepth - 1 = 0
             THEN stack' = Append(WithTop([Top EXCEPT
                                      !.current = Append(current, char),
                                      !.parenDepth = 0]),
                                  EntryFrame(SliceInner(Append(current, char))))
             ELSE stack' = WithTop([Top EXCEPT
                               !.current = Append(current, char),
                               !.parenDepth = parenDepth - 1,
                               !.i = Top.i + 1])
        ELSE IF char = " " /\ parenDepth = 0
        THEN IF Trim(current) # <<>>
             THEN stack' = WithTop([Top EXCEPT
                               !.daughters = PushParticle(Top.daughters, current),
                               !.current = <<>>,
                               !.i = Top.i + 1])
             ELSE stack' = WithTop([Top EXCEPT !.i = Top.i + 1])
        ELSE stack' = WithTop([Top EXCEPT
                          !.current = Append(current, char),
                          !.i = Top.i + 1])
  /\ UNCHANGED <<targetText, patternText, target, pattern, pc, pending, weight, result, via>>
  /\ UNCHANGED <<canonVars, filterVars>>
  /\ UNCHANGED appVars

\* lines 87-95 where a call that found no daughter does not return
ReturnOnlyTrees ==
  /\ pc = "parsing"
  /\ Top.phase = "scan"
  /\ Top.i > Len(Top.daughtersStr)
  /\ \E daughters \in {IF Trim(Top.current) # <<>> /\ Top.parenDepth = 0
                        THEN PushParticle(Top.daughters, Top.current)
                        ELSE Top.daughters} :
        /\ daughters # <<>>
        /\ \E ret \in {sortDecay(Decay(Top.mother, daughters))} :
              ReturnTo(Callers, ret)
  /\ UNCHANGED <<targetText, patternText, pattern, pending, weight, result, via>>
  /\ UNCHANGED <<canonVars, filterVars>>
  /\ UNCHANGED appVars

\* lines 87-95: what remains in current, and the return; each local is
\* bound to its value once
Return ==
  /\ pc = "parsing"
  /\ Top.phase = "scan"
  /\ Top.i > Len(Top.daughtersStr)
  /\ \E daughters \in {IF Trim(Top.current) # <<>> /\ Top.parenDepth = 0
                        THEN PushParticle(Top.daughters, Top.current)
                        ELSE Top.daughters} :
     \E ret \in {IF daughters = <<>> THEN Null
                 ELSE sortDecay(Decay(Top.mother, daughters))} :
        ReturnTo(Callers, ret)
  /\ UNCHANGED <<targetText, patternText, pattern, pending, weight, result, via>>
  /\ UNCHANGED <<canonVars, filterVars>>
  /\ UNCHANGED appVars

NextParse == Enter \/ ScanChar \/ Return

SpecParse == InitParse /\ [][NextParse]_vars

\* the same call on the shorter typed texts
InitParseFair == InitParseOf(TextsOfTokens(MaxFairTokens))

\* a call in progress runs on: nothing else is scheduled on the thread
SpecParseFair == InitParseFair /\ [][NextParse]_vars /\ WF_vars(NextParse)

----------------------------------------------------------------------------
(* The decay filters of the table and the record they are applied to      *)
(* (App.jsx): every change of selectedFilters renders the table again     *)

\* the decays of the modes of a record, and the filters to choose from
RecordDecays == {Decay(nA, <<Leaf(nx)>>), Decay(nx, <<Leaf(nA)>>)}
FilterChoices ==
  {Decay(nA, <<Leaf(nx)>>), Decay(nx, <<Leaf(nA)>>), Decay(nA, <<Leaf(nx), Leaf(nx)>>)}

SeqsUpToOrEmpty(S, n) == UNION {[1..k -> S] : k \in 0..n}

\* item.decay_structures: a list of modes, each a list of decays
RecordStructures(maxModes, maxModeDecays) ==
  SeqsUpToOrEmpty(SeqsUpToOrEmpty(RecordDecays, maxModeDecays), maxModes)

\* String.prototype.toLowerCase
toLowerCase(s) == [i \in 1..Len(s) |-> Fold(s[i])]

\* lines 263-282: the test of one filter, a particle against
\* item.particles, a decay against item.decay_structures
FilterMatches(structures, filter) ==
  IF filter.leaf
  THEN \E k \in 1..Len(particles) : toLowerCase(particles[k]) = toLowerCase(filter.name)
  ELSE IF Len(structures) = 0 THEN FALSE
  ELSE \E m \in 1..Len(structures) :
          \E k \in 1..Len(structures[m]) : decayContains(structures[m][k], filter)

\* every filter satisfied within one and the same mode
MatchesFiltersInOneMode(structures, filters) ==
  \/ Len(filters) = 0
  \/ \E m \in 1..Len(structures) :
        \A i \in 1..Len(filters) :
           \E k \in 1..Len(structures[m]) : decayContains(structures[m][k], filters[i])

\* lines 260-284
MatchesFilters(structures, filters) ==
  \/ Len(filters) = 0
  \/ \A i \in 1..Len(filters) : FilterMatches(structures, filters[i])

InitFilter ==
  /\ targetText = <<>>
  /\ patternText = <<>>
  /\ target = Null
  /\ pattern = Null
  /\ pc = "table"
  /\ pending = <<>>
  /\ weight = 0
  /\ result = FALSE
  /\ via = "none"
  /\ decayStructures \in RecordStructures(MaxModes, MaxModeDecays)
  /\ selectedFilters = <<>>
  /\ matchesFilters = MatchesFilters(decayStructures, <<>>)
  /\ CanonIdle /\ ParserIdle /\ AppIdle

\* lines 363-370
FilterExists(filters, filter) ==
  \E i \in 1..Len(filters) :
     IF filters[i].leaf /\ filter.leaf
     THEN toLowerCase(filters[i].name) = toLowerCase(filter.name)
     ELSE IF ~filters[i].leaf /\ ~filter.leaf
     THEN decaysMatch(filters[i], filter)
     ELSE FALSE

\* lines 372-374 without the test of exists
WithFilterAppended(filters, filter) == Append(filters, filter)

\* lines 372-374: the list addFilter sets
WithFilter(filters, filter) ==
  IF ~FilterExists(filters, filter) THEN Append(filters, filter) ELSE filters

\* lines 361-375, and the render that follows
addFilter(filter) ==
  /\ pc = "table"
  /\ selectedFilters' = WithFilter(selectedFilters, filter)
  /\ matchesFilters' = MatchesFilters(decayStructures, selectedFilters')
  /\ particleSearch' = <<>>
  /\ UNCHANGED <<targetText, patternText, target, pattern, pc, pending, weight, result, via>>
  /\ UNCHANGED <<canonVars, parserVars, decayStructures>>
  /\ UNCHANGED <<someVars, particles, decayMode, decayMother, decayDaughters, pageVars>>

KeepFilter(f, filterToRemove) ==
  IF f.leaf /\ filterToRemove.leaf THEN f # filterToRemove
  ELSE IF ~f.leaf /\ ~filterToRemove.leaf THEN ~decaysMatch(f, filterToRemove)
  ELSE TRUE

\* lines 388-395: the list removeFilter sets
WithoutFilter(filters, filterToRemove) ==
  SelectSeq(filters, LAMBDA f : KeepFilter(f, filterToRemove))

\* lines 387-396, and the render that follows
removeFilter(filterToRemove) ==
  /\ pc = "table"
  /\ selectedFilters' = WithoutFilter(selectedFilters, filterToRemove)
  /\ matchesFilters' = MatchesFilters(decayStructures, selectedFilters')
  /\ UNCHANGED <<targetText, patternText, target, pattern, pc, pending, weight, result, via>>
  /\ UNCHANGED <<canonVars, parserVars, decayStructures>>
  /\ UNCHANGED appVars

NextFilter ==
  \/ \E filter \in FilterChoices : addFilter(filter)
  \/ \E i \in 1..Len(selectedFilters) : removeFilter(selectedFilters[i])

SpecFilter == InitFilter /\ [][NextFilter]_vars

----------------------------------------------------------------------------
(* The filter editor: the text input, its decay input mode, the suggestion *)
(* list and the chips of the active filters                                *)

na == <<"a">>
\* the particles of the release offered as suggestions
Suggestions == {na}
\* what the user may have in the input after a change
TypedValues == {nA, <<"A", "-", ">", "a">>}

InitEdit ==
  /\ targetText = <<>>
  /\ patternText = <<>>
  /\ target = Null
  /\ pattern = Null
  /\ pc = "table"
  /\ pending = <<>>
  /\ weight = 0
  /\ result = FALSE
  /\ via = "none"
  /\ decayStructures = <<<<Decay(nA, <<Leaf(nx)>>)>>>>
  /\ particles = <<nA, nx>>
  /\ selectedFilters = <<>>
  /\ matchesFilters = MatchesFilters(decayStructures, <<>>)
  /\ CanonIdle /\ ParserIdle /\ SomeIdle /\ InputIdle /\ PageIdle

\* what no handler of the editor touches
EditFrame ==
  /\ UNCHANGED <<targetText, patternText, target, pattern, pc, pending, weight, result, via>>
  /\ UNCHANGED <<canonVars, parserVars, decayStructures, someVars, particles, pageVars>>

\* value.match(/(.*?)\s*(->|=>)\s*(.*)$/): the position of the first arrow,
\* 0 when there is none
ArrowMatch(value) ==
  LET arrows == {i \in 1..(Len(value) - 1) : value[i] = "-" /\ value[i + 1] = ">"}
  IN IF arrows = {} THEN 0 ELSE CHOOSE i \in arrows : \A k \in arrows : i <= k

\* lines 400-450
handleParticleSearchChange(value) ==
  /\ pc = "table"
  /\ LET arrow == ArrowMatch(value)
         motherCandidate == normalizeParticleName(Trim(Take(value, arrow - 1)))
         afterArrow == Drop(value, arrow + 1)
         lastFilter == selectedFilters[Len(selectedFilters)]
     IN IF ~decayMode /\ arrow # 0
        THEN IF motherCandidate # <<>>
             THEN /\ decayMode' = TRUE
                  /\ decayMother' = motherCandidate
                  /\ decayDaughters' = <<>>
                  /\ particleSearch' = Trim(afterArrow)
             ELSE IF Len(selectedFilters) > 0 /\ lastFilter.leaf
             THEN /\ decayMode' = TRUE
                  /\ decayMother' = lastFilter.name
                  /\ decayDaughters' = <<>>
                  /\ particleSearch' = Trim(afterArrow)
             ELSE UNCHANGED inputVars
        ELSE /\ particleSearch' = value
             /\ UNCHANGED <<decayMode, decayMother, decayDaughters>>
  /\ UNCHANGED <<selectedFilters, matchesFilters>>
  /\ EditFrame

\* parseDecayString(d) || normalizeParticleName(d), as a list of no or one
\* entry: an empty name is dropped
OrParticle(parsedDecay, normalized) ==
  IF parsedDecay # Null THEN <<parsedDecay>>
  ELSE IF normalized # <<>> THEN <<Leaf(normalized)>>
  ELSE <<>>

ParsedOrParticle(d) == OrParticle(parseDecayString(d), normalizeParticleName(d))

\* input.split(/\s+/) of a trimmed text that is not empty
RECURSIVE SplitOnSpaces(_)
SplitOnSpaces(input) ==
  LET spaces == {i \in 1..Len(input) : input[i] = " "}
      first == CHOOSE i \in spaces : \A k \in spaces : i <= k
  IN IF spaces = {} THEN <<input>>
     ELSE <<Take(input, first - 1)>> \o SplitOnSpaces(Trim(Drop(input, first)))

RECURSIVE ParsedOrParticles(_)
ParsedOrParticles(parts) ==
  IF parts = <<>> THEN <<>>
  ELSE ParsedOrParticle(Trim(Head(parts))) \o ParsedOrParticles(Tail(parts))

\* lines 457-495: the daughters collected so far and those of the input
InputDaughters(input, parsedInput) ==
  IF input = <<>> THEN <<>>
  ELSE IF parsedInput # Null THEN <<parsedInput>>
  ELSE ParsedOrParticles(SplitOnSpaces(input))

AllDaughters(daughters, input) ==
  ParsedOrParticles(daughters) \o InputDaughters(input, parseDecayString(input))

\* lines 524-530
ExitDecayMode ==
  /\ decayMode' = FALSE
  /\ decayMother' = <<>>
  /\ decayDaughters' = <<>>
  /\ particleSearch' = <<>>

exitDecayMode ==
  /\ pc = "table"
  /\ ExitDecayMode
  /\ UNCHANGED <<selectedFilters, matchesFilters>>
  /\ EditFrame

\* the filter handleAddFromInput hands to addFilter; Null when it hands
\* none (lines 452-522)
DecayFromInput(allDaughters) ==
  IF decayMother # <<>> /\ allDaughters # <<>>
  THEN sortDecay(Decay(decayMother, allDaughters))
  ELSE Null

FirstOrNull(filters) == IF filters = <<>> THEN Null ELSE filters[1]

FilterFromInput ==
  IF decayMode
  THEN DecayFromInput(AllDaughters(decayDaughters, Trim(particleSearch)))
  ELSE FirstOrNull(ParsedOrParticle(Trim(particleSearch)))

\* handleAddFromInput with the list set without the test of addFilter
handleAddFromInputUnchecked ==
  /\ pc = "table"
  /\ \E filter \in {FilterFromInput} :
        IF filter # Null
        THEN /\ selectedFilters' = WithFilterAppended(selectedFilters, filter)
             /\ matchesFilters' = MatchesFilters(decayStructures, selectedFilters')
             /\ IF decayMode THEN ExitDecayMode
                ELSE /\ particleSearch' = <<>>
                     /\ UNCHANGED <<decayMode, decayMother, decayDaughters>>
        ELSE /\ UNCHANGED <<selectedFilters, matchesFilters>>
             /\ IF decayMode /\ decayMother # <<>>
                THEN /\ particleSearch' = <<>>
                     /\ UNCHANGED <<decayMode, decayMother, decayDaughters>>
                ELSE UNCHANGED inputVars
  /\ EditFrame

\* lines 452-522, addFilter (361-375) included, and the render that follows
handleAddFromInput ==
  /\ pc = "table"
  /\ \E filter \in {FilterFromInput} :
        IF filter # Null
        THEN /\ selectedFilters' = WithFilter(selectedFilters, filter)
             /\ matchesFilters' = MatchesFilters(decayStructures, selectedFilters')
             /\ IF decayMode THEN ExitDecayMode
                ELSE /\ particleSearch' = <<>>
                     /\ UNCHANGED <<decayMode, decayMother, decayDaughters>>
        ELSE /\ UNCHANGED <<selectedFilters, matchesFilters>>
             /\ IF decayMode /\ decayMother # <<>>
                THEN /\ particleSearch' = <<>>
                     /\ UNCHANGED <<decayMode, decayMother, decayDaughters>>
                ELSE UNCHANGED inputVars
  /\ EditFrame

\* lines 533-568, removeFilter (387-397) included
handleFilterDoubleClick(filter) ==
  /\ pc = "table"
  /\ IF ~filter.leaf
     THEN /\ decayMode' = TRUE
          /\ decayMother' = filter.name
          /\ decayDaughters' = [i \in 1..Len(filter.ds) |->
                                  IF filter.ds[i].leaf THEN filter.ds[i].name
                                  ELSE formatFilter(filter.ds[i])]
          /\ particleSearch' = <<>>
     ELSE /\ particleSearch' = filter.name
          /\ UNCHANGED <<decayMode, decayMother, decayDaughters>>
  /\ selectedFilters' = WithoutFilter(selectedFilters, filter)
  /\ matchesFilters' = MatchesFilters(decayStructures, selectedFilters')
  /\ EditFrame

\* lines 571-590: a suggestion chosen; outside decay input mode it goes to
\* addFilter as it is
handleAddParticleInDecayMode(particle) ==
  /\ pc = "table"
  /\ IF decayMode
     THEN /\ LET normalized == normalizeParticleName(particle)
             IN IF normalized # <<>>
                THEN /\ decayDaughters' = Append(decayDaughters, normalized)
                     /\ particleSearch' = <<>>
                     /\ UNCHANGED <<decayMode, decayMother>>
                ELSE UNCHANGED inputVars
          /\ UNCHANGED <<selectedFilters, matchesFilters>>
     ELSE /\ selectedFilters' = WithFilter(selectedFilters, Leaf(particle))
          /\ matchesFilters' = MatchesFilters(decayStructures, selectedFilters')
          /\ particleSearch' = <<>>
          /\ UNCHANGED <<decayMode, decayMother, decayDaughters>>
  /\ EditFrame

\* the events of the editor; a further filter or daughter is entered only
\* below the bounds
NextEdit ==
  \/ \E value \in TypedValues : handleParticleSearchChange(value)
  \/ /\ \E filter \in {FilterFromInput} :
           filter # Null =>
             /\ Len(WithFilter(selectedFilters, filter)) <= MaxFilters
             /\ ~filter.leaf => Len(filter.ds) <= MaxEditDaughters
     /\ handleAddFromInput
  \/ \E i \in 1..Len(selectedFilters) : handleFilterDoubleClick(selectedFilters[i])
  \/ \E i \in 1..Len(selectedFilters) : removeFilter(selectedFilters[i])
  \/ \E particle \in Suggestions :
        /\ decayMode => Len(decayDaughters) < MaxEditDaughters
        /\ ~decayMode => Len(WithFilter(selectedFilters, Leaf(particle))) <= MaxFilters
        /\ handleAddParticleInDecayMode(particle)
  \/ exitDecayMode

SpecEdit == InitEdit /\ [][NextEdit]_vars

----------------------------------------------------------------------------
(* The release shown: the effect of App.jsx lines 165-207 starts a request *)
(* for data.json whenever the selected release changes; the responses      *)
(* arrive in any order                                                     *)

\* releases.json, oldest first
ReleasesList == <<"r1", "r2", "r3">>
Releases == {ReleasesList[i] : i \in 1..Len(ReleasesList)}

\* the parts of the response to the request for the data.json of a release
\* (None: the data.json at the root)
Files(release) == <<"files", release>>
UniqueParticles(release) == <<"uniqueParticles", release>>
Metadata(release) == <<"metadata", release>>

\* the state of a page on which nothing but the release changes
PageFrame ==
  /\ UNCHANGED <<targetText, patternText, target, pattern, pc, pending, weight, result, via>>
  /\ UNCHANGED <<canonVars, parserVars, filterVars, someVars, particles, inputVars>>

InitRelease ==
  /\ targetText = <<>>
  /\ patternText = <<>>
  /\ target = Null
  /\ pattern = Null
  /\ pc = "page"
  /\ pending = <<>>
  /\ weight = 0
  /\ result = FALSE
  /\ via = "none"
  /\ CanonIdle /\ ParserIdle /\ FilterIdle /\ AppIdle

\* lines 170-175: the effect body, run after the render in which
\* selectedRelease or loadingReleases changed
StartFetch(release) ==
  /\ loading' = TRUE
  /\ fetches' = Append(fetches, release)

\* lines 137-161 with the effect that follows: releases.json answers with
\* a list, whose last entry is selected, or fails and nothing is selected
ReleasesLoaded ==
  /\ pc = "page"
  /\ loadingReleases
  /\ \E release \in {ReleasesList[Len(ReleasesList)], None} :
        /\ selectedRelease' = release
        /\ StartFetch(release)
  /\ loadingReleases' = FALSE
  /\ UNCHANGED <<data, uniqueParticles, metadata>>
  /\ UNCHANGED viewerVars
  /\ PageFrame

\* lines 679-683 with the effect that follows: another release chosen in
\* the select, which lists the releases once releases.json has given them
SelectRelease(release) ==
  /\ pc = "page"
  /\ ~loadingReleases
  /\ selectedRelease # None
  /\ release # selectedRelease
  /\ selectedRelease' = release
  /\ StartFetch(release)
  /\ UNCHANGED <<loadingReleases, data, uniqueParticles, metadata>>
  /\ UNCHANGED viewerVars
  /\ PageFrame

\* the requests in flight without the one at position i
Settled(i) == Take(fetches, i - 1) \o Drop(fetches, i)

\* lines 176-202: a response arrives, in the new format (files,
\* uniqueParticles, metadata) or in the old one (the list of files alone)
FetchSettles(i, newFormat) ==
  /\ pc = "page"
  /\ i \in 1..Len(fetches)
  /\ data' = Files(fetches[i])
  /\ IF newFormat
     THEN /\ uniqueParticles' = UniqueParticles(fetches[i])
          /\ metadata' = Metadata(fetches[i])
     ELSE UNCHANGED <<uniqueParticles, metadata>>
  /\ loading' = FALSE
  /\ fetches' = Settled(i)
  /\ UNCHANGED <<selectedRelease, loadingReleases>>
  /\ UNCHANGED viewerVars
  /\ PageFrame

\* lines 177-179 and 203-206: the request fails
FetchFails(i) ==
  /\ pc = "page"
  /\ i \in 1..Len(fetches)
  /\ loading' = FALSE
  /\ fetches' = Settled(i)
  /\ UNCHANGED <<selectedRelease, loadingReleases, data, uniqueParticles, metadata>>
  /\ UNCHANGED viewerVars
  /\ PageFrame

NextRelease ==
  \/ ReleasesLoaded
  \/ Len(fetches) < MaxFetches /\ \E release \in Releases : SelectRelease(release)
  \/ \E i \in 1..Len(fetches), newFormat \in BOOLEAN : FetchSettles(i, newFormat)
  \/ \E i \in 1..Len(fetches) : FetchFails(i)

SpecRelease == InitRelease /\ [][NextRelease]_vars

----------------------------------------------------------------------------
(* DotViewer: each run of the effect of lines 13-180 starts one render     *)
(* attempt with its own mounted flag and timer; the cleanup of the run     *)
(* clears both                                                             *)

DotFiles == {"a.dot", "b.dot"}

\* what a finished attempt sets for a file
Source(file) == <<"source", file>>
Svg(file) == <<"svg", file>>
Info(file) == <<"info", file>>

\* a render attempt: the closure of one effect run.  at is the await the
\* async function stands at: "fetch" (lines 43-50), "instance" (line 67),
\* then "done", or "aborted" when it returned on finding mounted false
Attempt(file) == [dotFile |-> file, mounted |-> TRUE, at |-> "fetch", timer |-> TRUE]

ViewerFrame ==
  /\ UNCHANGED <<targetText, patternText, target, pattern, pc, pending, weight, result, via>>
  /\ UNCHANGED <<canonVars, parserVars, filterVars, someVars, particles, inputVars>>
  /\ UNCHANGED releaseVars

InitViewer ==
  /\ targetText = <<>>
  /\ patternText = <<>>
  /\ target = Null
  /\ pattern = Null
  /\ pc = "viewer"
  /\ pending = <<>>
  /\ weight = 0
  /\ result = FALSE
  /\ via = "none"
  /\ CanonIdle /\ ParserIdle /\ FilterIdle /\ AppIdle

\* lines 174-179: the cleanup of the effect run that started the latest
\* attempt
Cleanup(attempts) ==
  [i \in 1..Len(attempts) |->
     IF i = Len(attempts)
     THEN [attempts[i] EXCEPT !.mounted = FALSE, !.timer = FALSE]
     ELSE attempts[i]]

\* the prop dotFile changes, or the component unmounts (file = None): the
\* cleanup of the last run, then the effect (lines 14-32 and 172)
SetDotFile(file) ==
  /\ pc = "viewer"
  /\ file # dotFile
  /\ dotFile' = file
  /\ IF file # None
     THEN /\ graphLoading' = TRUE
          /\ error' = None
          /\ renders' = Append(Cleanup(renders), Attempt(file))
     ELSE /\ renders' = Cleanup(renders)
          /\ UNCHANGED <<graphLoading, error>>
  /\ UNCHANGED <<dotSource, svgInfo, renderedSvgHtml>>
  /\ ViewerFrame

\* lines 159-169: the catch block
Caught(i, message) ==
  IF renders[i].mounted
  THEN /\ error' = message
       /\ graphLoading' = FALSE
       /\ renders' = [renders EXCEPT ![i].at = "done", ![i].timer = FALSE]
  ELSE /\ renders' = [renders EXCEPT ![i].at = "aborted"]
       /\ UNCHANGED <<error, graphLoading>>

\* lines 43-58 without the test of mounted
FetchResolvesUnguarded(i) ==
  /\ pc = "viewer"
  /\ i \in 1..Len(renders)
  /\ renders[i].at = "fetch"
  /\ dotSource' = Source(renders[i].dotFile)
  /\ renders' = [renders EXCEPT ![i].at = "instance"]
  /\ UNCHANGED <<dotFile, graphLoading, error, svgInfo, renderedSvgHtml>>
  /\ ViewerFrame

\* lines 43-58: the file has arrived
FetchResolves(i) ==
  /\ pc = "viewer"
  /\ i \in 1..Len(renders)
  /\ renders[i].at = "fetch"
  /\ IF renders[i].mounted
     THEN /\ dotSource' = Source(renders[i].dotFile)
          /\ renders' = [renders EXCEPT ![i].at = "instance"]
     ELSE /\ renders' = [renders EXCEPT ![i].at = "aborted"]
          /\ UNCHANGED dotSource
  /\ UNCHANGED <<dotFile, graphLoading, error, svgInfo, renderedSvgHtml>>
  /\ ViewerFrame

\* lines 43-48: the request fails or answers with an error status
FetchRejects(i) ==
  /\ pc = "viewer"
  /\ i \in 1..Len(renders)
  /\ renders[i].at = "fetch"
  /\ Caught(i, "failed to load")
  /\ UNCHANGED <<dotFile, dotSource, svgInfo, renderedSvgHtml>>
  /\ ViewerFrame

\* lines 67-158: viz.js is there; the graph is rendered and serialized in
\* the same turn, or the rendering throws
InstanceResolves(i, renderThrows) ==
  /\ pc = "viewer"
  /\ i \in 1..Len(renders)
  /\ renders[i].at = "instance"
  /\ IF ~renders[i].mounted
     THEN /\ renders' = [renders EXCEPT ![i].at = "aborted"]
          /\ UNCHANGED <<error, graphLoading, svgInfo, renderedSvgHtml>>
     ELSE IF renderThrows
     THEN /\ Caught(i, "rendering failed")
          /\ UNCHANGED <<svgInfo, renderedSvgHtml>>
     ELSE /\ renderedSvgHtml' = Svg(renders[i].dotFile)
          /\ svgInfo' = Info(renders[i].dotFile)
          /\ graphLoading' = FALSE
          /\ renders' = [renders EXCEPT ![i].at = "done", ![i].timer = FALSE]
          /\ UNCHANGED error
  /\ UNCHANGED <<dotFile, dotSource>>
  /\ ViewerFrame

\* lines 66-72: viz.js cannot be had
InstanceRejects(i) ==
  /\ pc = "viewer"
  /\ i \in 1..Len(renders)
  /\ renders[i].at = "instance"
  /\ Caught(i, "failed to initialize")
  /\ UNCHANGED <<dotFile, dotSource, svgInfo, renderedSvgHtml>>
  /\ ViewerFrame

\* lines 26-32: the timer of an attempt fires after 30 seconds
Timeout(i) ==
  /\ pc = "viewer"
  /\ i \in 1..Len(renders)
  /\ renders[i].timer
  /\ IF renders[i].mounted
     THEN /\ error' = "timeout"
          /\ graphLoading' = FALSE
     ELSE UNCHANGED <<error, graphLoading>>
  /\ renders' = [renders EXCEPT ![i].timer = FALSE]
  /\ UNCHANGED <<dotFile, dotSource, svgInfo, renderedSvgHtml>>
  /\ ViewerFrame

NextViewer ==
  \/ \E file \in DotFiles \cup {None} :
        /\ file # None => Len(renders) < MaxRenders
        /\ SetDotFile(file)
  \/ \E i \in 1..Len(renders) : FetchResolves(i)
  \/ \E i \in 1..Len(renders) : FetchRejects(i)
  \/ \E i \in 1..Len(renders), renderThrows \in BOOLEAN : InstanceResolves(i, renderThrows)
  \/ \E i \in 1..Len(renders) : InstanceRejects(i)
  \/ \E i \in 1..Len(renders) : Timeout(i)

SpecViewer == InitViewer /\ [][NextViewer]_vars

----------------------------------------------------------------------------
(* Notions the properties are stated in *)

IsFlat(t) == \A i \in 1..Len(t.ds) : t.ds[i].leaf

DaughterNames(t) == [i \in 1..Len(t.ds) |-> t.ds[i].name]

\* the names of the final-state leaves below a node, left to right
RECURSIVE LeafNames(_)
RECURSIVE LeafNamesOfAll(_)
LeafNames(t) == IF t.leaf THEN <<t.name>> ELSE LeafNamesOfAll(t.ds)
LeafNamesOfAll(ds) ==
  IF ds = <<>> THEN <<>> ELSE LeafNames(Head(ds)) \o LeafNamesOfAll(Tail(ds))

Count(s, x) == Cardinality({i \in 1..Len(s) : s[i] = x})
Elements(s) == {s[i] : i \in 1..Len(s)}
SameBag(a, b) ==
  /\ Len(a) = Len(b)
  /\ \A x \in Elements(a) : Count(a, x) = Count(b, x)
StrictSubBag(a, b) ==
  /\ Len(a) < Len(b)
  /\ \A x \in Elements(a) : Count(a, x) <= Count(b, x)

\* the ways of naming the daughters of a target: a leaf by its name, a
\* sub-decay by its mother or by the names of its direct daughters
GranularityChoices(d) ==
  IF d.leaf THEN {<<d.name>>} ELSE {<<d.name>>, DaughterNames(d)}
RECURSIVE MixedCovers(_)
MixedCovers(ds) ==
  IF ds = <<>> THEN {<<>>}
  ELSE {h \o r : h \in GranularityChoices(Head(ds)), r \in MixedCovers(Tail(ds))}

SameMother(t, p) == t.name = p.name
Done == pc = "done"

----------------------------------------------------------------------------
(* Properties *)

\* C1: a pattern typed as the target's mother and the names of its direct
\* daughters, sub-decays by their mother, is contained in the target parsed
\* from its descriptor; so it is for the descriptor of Lambda(1520)0 and
\* anti-Lambda(1520)0.
C1_ContainedByIntermediateName ==
  /\ (Done /\ targetText = ExampleTargetText /\ patternText = ExamplePatternText)
       => result = TRUE
  /\ (Done /\ \E f \in [1..Len(target.ds) -> Elements(DaughterNames(target))] :
                 /\ SameBag(f, DaughterNames(target))
                 /\ patternText = formatFilter(Decay(target.name,
                                      [i \in 1..Len(f) |-> Leaf(f[i])])))
       => result = TRUE

\* C2: a flat pattern with the target's mother whose daughters are exactly
\* the final-state leaf names of the target is contained.
C2_ExplodedFinalStateContained ==
  (Done /\ SameMother(target, pattern) /\ IsFlat(pattern)
        /\ SameBag(DaughterNames(pattern), LeafNames(target)))
    => result = TRUE

\* C3: a flat pattern with the target's mother whose daughters are a strict
\* sub-multiset of the target's final-state leaf names is not contained.
C3_PartialFinalStateRejected ==
  (Done /\ SameMother(target, pattern) /\ IsFlat(pattern)
        /\ StrictSubBag(DaughterNames(pattern), LeafNames(target)))
    => result = FALSE

\* C4: a flat pattern whose mother matches and that lists every final-state
\* leaf of the target and at least one daughter more is rejected by the
\* weighted check, with elements left in the pending list.
C4_SupersetFinalStateRejected ==
  (Done /\ MothersMatch(target, pattern) /\ IsFlat(pattern)
        /\ StrictSubBag(LeafNames(target), DaughterNames(pattern)))
    => (result = FALSE /\ via = "weighted" /\ Len(pending) > 0)

C4_Witness ==
  /\ Done /\ SameMother(target, pattern) /\ IsFlat(pattern)
  /\ StrictSubBag(LeafNames(target), DaughterNames(pattern))
  /\ weight = getWeight(target)
  /\ result = FALSE

\* C5: when the mothers differ, the verdict is true exactly when some
\* sub-decay daughter of the target contains the pattern; leaf daughters
\* do not count.
C5_DeepSearch ==
  (Done /\ ~MothersMatch(target, pattern))
    => /\ via = "deep"
       /\ result = (\E i \in 1..Len(target.ds) :
                       /\ ~target.ds[i].leaf
                       /\ decayContains(target.ds[i], pattern))

\* found two levels down: no daughter of the target has the pattern's mother
C5_Witness ==
  /\ Done /\ via = "deep" /\ result = TRUE
  /\ \A i \in 1..Len(target.ds) : ~MothersMatch(target.ds[i], pattern)

\* C6: when the mothers match and the exact and the weighted check both
\* fail, a sub-decay daughter that contains the pattern still makes the
\* verdict true.
C6_FallThroughToSubDecays ==
  (Done /\ via = "weighted"
        /\ \E i \in 1..Len(target.ds) :
              ~target.ds[i].leaf /\ decayContains(target.ds[i], pattern))
    => result = TRUE

\* C7: when the mothers match and the trees are not equal, the verdict is
\* true exactly when the walk matched the whole weight of the target and
\* left the pending list empty.
C7_WeightedSuccessCondition ==
  (Done /\ MothersMatch(target, pattern) /\ ~decaysMatch(target, pattern))
    => /\ via = "weighted"
       /\ result = (weight = Len(LeafNames(target)) /\ pending = <<>>)

\* the walk succeeds on a nested target
C7_Witness ==
  /\ Done /\ via = "weighted" /\ result = TRUE
  /\ ~IsFlat(target)
  /\ ~decaysMatch(target, pattern)

\* C8: for flat trees with the same mother the verdict is true exactly
\* when the daughters agree as multisets.
C8_DuplicatesByCount ==
  (Done /\ SameMother(target, pattern) /\ IsFlat(target) /\ IsFlat(pattern))
    => result = SameBag(DaughterNames(pattern), DaughterNames(target))

\* C9: a flat pattern that names every leaf daughter of the target and,
\* for each sub-decay daughter, either its mother or all its direct
\* daughters, is contained.
C9_MixedGranularity ==
  (Done /\ SameMother(target, pattern) /\ IsFlat(pattern) /\ ~IsFlat(target)
        /\ \E c \in MixedCovers(target.ds) : SameBag(DaughterNames(pattern), c))
    => result = TRUE

\* C10: when the mothers match and the trees are equal up to order, the
\* verdict is true by the exact check and the walk has not run; a tree
\* contains itself.
C10_ExactMatchFirst ==
  /\ (Done /\ MothersMatch(target, pattern) /\ decaysMatch(target, pattern))
       => (result = TRUE /\ via = "exact" /\ weight = 0 /\ pending = <<>>)
  /\ (Done /\ pattern = target) => result = TRUE

\* a nested tree against itself, given in another daughter order
C10_Witness ==
  /\ Done /\ via = "exact"
  /\ ~IsFlat(target)
  /\ pattern # target

Normalized == pc \in {"normalized", "compared"}

\* C11: the normal form of a decay is its own normal form, also when
\* normalizing the names changes them after the daughters were sorted.
C11_CanonicalIdempotent ==
  Normalized => normalizeDecay(norm1) = norm1

\* C12: a decay and the same decay with its daughter lists in another
\* order have the same normal form, also when daughters share a sort key.
C12_CanonicalOrderInvariant ==
  (Normalized /\ pattern \in Rearrangements(target)) => norm1 = norm2

\* C13: decaysMatch gives the same answer with its arguments exchanged.
C13_ExactMatchSymmetric ==
  pc = "compared" => result = decaysMatch(pattern, target)

\* two different trees that match
C13_Witness ==
  /\ pc = "compared"
  /\ result = TRUE
  /\ pattern # target
  /\ ~IsFlat(target)

\* a node and every node below it
RECURSIVE SubNodes(_)
SubNodes(t) ==
  {t} \cup UNION {SubNodes(t.ds[i]) : i \in 1..Len(t.ds)}

\* C14: the weight of a leaf is 1, the weight of a decay is the sum of the
\* weights of its daughters, and so the weight of a node is the number of
\* final-state leaves below it.
C14_WeightConsistent ==
  \A n \in SubNodes(target) :
     /\ n.leaf => getWeight(n) = 1
     /\ ~n.leaf => getWeight(n) = SumSeq([i \in 1..Len(n.ds) |-> getWeight(n.ds[i])])
     /\ getWeight(n) = Len(LeafNames(n))

\* the walk has matched the whole weight of a target that has a sub-decay
\* next to another daughter
C14_Witness ==
  /\ Done /\ via = "weighted"
  /\ ~IsFlat(target) /\ Len(target.ds) >= 2
  /\ weight = getWeight(target)

Returned == pc = "returned"

\* the positions of the arrows outside parentheses
TopLevelArrows(t) ==
  {i \in 1..(Len(t) - 1) :
     /\ t[i] = "-" /\ t[i + 1] = ">"
     /\ Count(SubSeq(t, 1, i - 1), "(") = Count(SubSeq(t, 1, i - 1), ")")}

Min(S) == CHOOSE i \in S : \A k \in S : i <= k

\* a closing parenthesis that nothing opened, or an opening one left open
Unbalanced(t) ==
  \/ Count(t, "(") # Count(t, ")")
  \/ \E i \in 1..Len(t) : Count(SubSeq(t, 1, i), "(") < Count(SubSeq(t, 1, i), ")")

TextSubDecays == {d \in TextDaughters : ~d.leaf}

C17_TopLevelArrowRule ==
  Returned =>
    LET t == Trim(targetText)
        arrows == TopLevelArrows(t)
    IN /\ arrows = {} => target = Null
       /\ arrows # {} =>
            /\ Trim(Take(t, Min(arrows) - 1)) = <<>> => target = Null
            /\ Trim(Drop(t, Min(arrows) + 1)) = <<>> => target = Null
            /\ target # Null =>
                 /\ target.name = Trim(Take(t, Min(arrows) - 1))
                 /\ Len(target.ds) >= 1

\* an arrow inside parentheses stands before the arrow the text is split at
C17_Witness ==
  /\ Returned
  /\ target # Null
  /\ \E j \in 1..Len(target.name) - 1 :
        target.name[j] = "-" /\ target.name[j + 1] = ">"

\* C18: a text with unbalanced parentheses parses to null.
C18_UnbalancedRejected ==
  (Returned /\ Unbalanced(targetText)) => target = Null

\* C19: in a tree the parser returns every name is non-empty and every
\* decay has at least one daughter.
C19_ParserOutputWellFormed ==
  (Returned /\ target # Null) =>
    \A n \in SubNodes(target) :
       /\ n.name # <<>>
       /\ ~n.leaf => Len(n.ds) >= 1

\* a tree with a sub-decay among its daughters
C19_Witness ==
  /\ Returned
  /\ target # Null
  /\ ~IsFlat(target)

\* each call in progress was made on a text strictly shorter than the
\* text of its caller
ShrinkingCalls ==
  \A k \in 2..Len(stack) : Len(stack[k].decayStr) < Len(stack[k - 1].decayStr)

\* C20: parseDecayString returns on every text, and each recursive call
\* is made on a text strictly shorter than the text being parsed.
C20_ParserTerminates == []ShrinkingCalls /\ <>Returned

\* a recursive call in progress on a text with unbalanced parentheses
C20_Witness ==
  /\ Len(stack) >= 2
  /\ Unbalanced(targetText)

\* the filter at position i is satisfied by some decay of mode m
SatisfiedIn(m, i) ==
  \E k \in 1..Len(decayStructures[m]) :
     decayContains(decayStructures[m][k], selectedFilters[i])

\* C16: with decay filters active the record is kept exactly when every
\* filter is contained in some decay of some mode, each filter in a mode
\* of its own if need be; a record without decay structures is dropped.
C16_RecordRetention ==
  Len(selectedFilters) >= 1 =>
    /\ matchesFilters =
         (\A i \in 1..Len(selectedFilters) :
             \E m \in 1..Len(decayStructures) : SatisfiedIn(m, i))
    /\ decayStructures = <<>> => matchesFilters = FALSE

\* two filters, kept, and no mode satisfies both
C16_Witness ==
  /\ Len(selectedFilters) = 2
  /\ matchesFilters = TRUE
  /\ \A m \in 1..Len(decayStructures) :
        \E i \in 1..Len(selectedFilters) : ~SatisfiedIn(m, i)

\* the names, without a trailing sig, of the nodes below the root of t
NamesBelow(t) ==
  {nodeName(n) : n \in UNION {SubNodes(t.ds[i]) : i \in 1..Len(t.ds)}}

\* C22: the walk starts at the direct daughters of the target, so only a
\* node below the root can consume a pending element: a pattern with a
\* daughter that names no node below the root of the target, such as
\* A -> A against A -> x y, is not contained by the weighted check.
C22_RootNameNotConsumed ==
  (Done /\ via = "weighted"
        /\ \E i \in 1..Len(pattern.ds) :
              /\ pattern.ds[i].leaf
              /\ pattern.ds[i].name \notin NamesBelow(target))
    => result = FALSE

\* C26: the verdict does not depend on the order of the daughters inside
\* the target: every rearrangement of its daughter lists, at any level,
\* gives the same verdict for the same pattern.
C26_TargetOrderIrrelevant ==
  Done => \A t \in Rearrangements(target) : decayContains(t, pattern) = result

\* a name with a trailing sig appended, or removed if it has one
ToggleSig(name) ==
  IF EndsWithSig(name) THEN StripSig(name) ELSE name \o <<"s", "i", "g">>

\* the pattern with the sig of one of its names toggled: of its mother or
\* of one daughter (for a sub-decay daughter, of that daughter's mother)
SigVariants(p) ==
  {sortDecay(Decay(ToggleSig(p.name), p.ds))}
    \cup {sortDecay(Decay(p.name,
                     [k \in 1..Len(p.ds) |->
                        IF k = i
                        THEN [p.ds[k] EXCEPT !.name = ToggleSig(p.ds[k].name)]
                        ELSE p.ds[k]])) : i \in 1..Len(p.ds)}

\* C28: the verdict is unchanged when a trailing sig is appended to or
\* removed from any name of the pattern, its mother or any daughter, also
\* when the exact check decides.
C28_SigIgnoredInPattern ==
  Done => \A p \in SigVariants(pattern) : decayContains(target, p) = result

\* C27: a pattern with a sub-decay among its daughters is contained only
\* where a decay node of the target equals the whole pattern up to order;
\* the walk never consumes the sub-decay element of the pending list.
C27_NestedPatternMatchesExactly ==
  /\ (Done /\ ~IsFlat(pattern) /\ result = TRUE)
       => \E n \in SubNodes(target) : ~n.leaf /\ decaysMatch(n, pattern)
  /\ (Done /\ ~IsFlat(pattern) /\ via = "weighted")
       => \E i \in 1..Len(pending) : ~pending[i].leaf

\* a nested pattern found below the root of the target, at a node that
\* equals it
C27_Witness ==
  /\ Done /\ via = "deep" /\ result = TRUE
  /\ ~IsFlat(pattern)
  /\ ~MothersMatch(target, pattern)

\* s is t with the daughters of every decay in a stable order by key: the
\* same mother, the daughters of t each in sorted form in turn, keys
\* non-decreasing, daughters of equal key in the order they have in t
RECURSIVE IsStableSortOf(_, _)
IsStableSortOf(s, t) ==
  /\ s.leaf = t.leaf
  /\ s.name = t.name
  /\ Len(s.ds) = Len(t.ds)
  /\ \E p \in Perms(Len(t.ds)) :
        /\ \A i \in 1..Len(s.ds) : IsStableSortOf(s.ds[i], t.ds[p[i]])
        /\ \A i, j \in 1..Len(s.ds) :
              i < j =>
                LET c == localeCompare(SortKey(s.ds[i]), SortKey(s.ds[j]))
                IN c <= 0 /\ (c = 0 => p[i] < p[j])

\* C23: sortDecay keeps the mother and, at every level, the daughters as a
\* multiset, orders them non-decreasingly by key with daughters of equal
\* key in their input order, and sorting a sorted decay changes nothing.
C23_SortDecayStable ==
  Normalized =>
    \A t \in {target, pattern} :
       /\ IsStableSortOf(sortDecay(t), t)
       /\ sortDecay(sortDecay(t)) = sortDecay(t)

\* sorting moved a daughter past others and left two daughters of equal
\* key, a leaf and a sub-decay, in their input order
C23_Witness ==
  /\ Normalized
  /\ sortDecay(target) # target
  /\ \E i, j \in 1..Len(target.ds) :
        /\ i < j
        /\ target.ds[i].leaf /\ ~target.ds[j].leaf
        /\ SortKey(target.ds[i]) = SortKey(target.ds[j])

\* the keys of the daughters of t do not decrease from left to right
KeysInOrder(t) ==
  \A i \in 1..(Len(t.ds) - 1) :
     localeCompare(SortKey(t.ds[i]), SortKey(t.ds[i + 1])) <= 0

\* C24: what parseDecayString returns is in sorted form at every level,
\* inside the sub-decays that the recursive calls produced too: sortDecay
\* leaves it as it is.
C24_ParserOutputSorted ==
  pc # "parse" =>
    \A t \in {target, pattern} :
       t # Null => /\ sortDecay(t) = t
                   /\ \A n \in SubNodes(t) : KeysInOrder(n)

\* typed with the daughters of the root and of a sub-decay out of order
C24_Witness ==
  /\ pc # "parse"
  /\ targetText = formatFilter(Decay(tB0sig,
                     <<Decay(tPhi, <<Leaf(tKp), Leaf(tKm)>>), Leaf(tKm)>>))
  /\ target = Decay(tB0sig, <<Leaf(tKm), Decay(tPhi, <<Leaf(tKm), Leaf(tKp)>>)>>)

\* C21: an evaluation leaves the search decay and the decays of the record
\* as they were, the list the walk splices being a copy; so each decay of
\* a sequence evaluated against one search decay gets the verdict it gets
\* when it is evaluated alone.
C21_InputsUnchanged ==
  /\ [][/\ pattern' = pattern
        /\ decayStructures' = decayStructures
        /\ target' = decayStructures[1][decayIndex']]_vars
  /\ [](Done => /\ target = decayStructures[1][decayIndex]
                /\ result = decayContains(decayStructures[1][decayIndex], pattern))

\* the second decay of a mode has its verdict from a walk that spliced the
\* pending list, after the walk on the first decay had spliced it too
C21_Witness ==
  /\ Done /\ via = "weighted"
  /\ decayIndex = 2
  /\ Len(pending) < Len(pattern.ds)
  /\ MothersMatch(decayStructures[1][1], pattern)
  /\ ~decaysMatch(decayStructures[1][1], pattern)
  /\ findMatches(decayStructures[1][1], pattern.ds).sd # pattern.ds

\* two active filters that addFilter takes for the same: two decays that
\* match, or two particles equal but for case
Duplicates(f, g) ==
  \/ ~f.leaf /\ ~g.leaf /\ decaysMatch(f, g)
  \/ f.leaf /\ g.leaf /\ toLowerCase(f.name) = toLowerCase(g.name)

\* C25: whatever the sequence of events of the editor, no two active
\* filters duplicate each other, and the list grows only by one filter
\* that duplicates none of those already active; an event that adds a
\* duplicate leaves the list as it was.
C25_NoDuplicateFilters ==
  /\ [](\A i, j \in 1..Len(selectedFilters) :
           i # j => ~Duplicates(selectedFilters[i], selectedFilters[j]))
  /\ [][Len(selectedFilters') > Len(selectedFilters) =>
          /\ Len(selectedFilters') = Len(selectedFilters) + 1
          /\ SubSeq(selectedFilters', 1, Len(selectedFilters)) = selectedFilters
          /\ \A i \in 1..Len(selectedFilters) :
                ~Duplicates(selectedFilters[i], selectedFilters'[Len(selectedFilters')])]_vars

\* a decay and a particle are active, and the input holds a particle that
\* differs from the active one by case only
C25_Witness ==
  /\ Len(selectedFilters) = 2
  /\ \E i, j \in 1..2 : selectedFilters[i].leaf /\ ~selectedFilters[j].leaf
  /\ FilterFromInput # Null
  /\ FilterFromInput.leaf
  /\ \E i \in 1..2 : /\ Duplicates(selectedFilters[i], FilterFromInput)
                     /\ selectedFilters[i] # FilterFromInput

\* C29: once the data, the particle list or the metadata of the selected
\* release are shown, they stay while that release is selected: a late
\* response for an earlier selection does not replace them.
C29_NoStaleRelease ==
  [][selectedRelease' = selectedRelease =>
       /\ data = Files(selectedRelease) => data' = data
       /\ uniqueParticles = UniqueParticles(selectedRelease) =>
            uniqueParticles' = uniqueParticles
       /\ metadata = Metadata(selectedRelease) => metadata' = metadata]_vars

\* C30: an attempt whose cleanup has run holds no timer, and a step it
\* takes from then on, the continuation after the fetch, after viz.js, or
\* the catch block, sets nothing of dotSource, renderedSvgHtml, svgInfo,
\* error and loading.
C30_SupersededRenderInert ==
  /\ [](\A i \in 1..Len(renders) : ~renders[i].mounted => ~renders[i].timer)
  /\ [][\A i \in 1..Len(renders) :
          (~renders[i].mounted /\ renders'[i] # renders[i])
            => UNCHANGED <<dotSource, renderedSvgHtml, svgInfo, error, graphLoading>>]_vars

\* the attempt for one file was abandoned after its cleanup, at an await
\* it reached before, and the graph of the file chosen after it is shown
C30_Witness ==
  \E i, j \in 1..Len(renders) :
     /\ i < j
     /\ renders[i].at = "aborted"
     /\ renders[j].at = "done"
     /\ renders[i].dotFile # renders[j].dotFile
     /\ dotSource = Source(renders[j].dotFile)
     /\ renderedSvgHtml = Svg(renders[j].dotFile)

====
